---- MODULE Spec2Model ----
(***************************************************************************)
(* FirewallMCP, PII detector: DetectPII.validate (src/app/detect_pii/      *)
(* detect_pii.py) and the detect_pii tool of src/main.py.                  *)
(*                                                                         *)
(* A string is a sequence of one-character strings.  An element of the     *)
(* list returned by difflib.Differ().compare(value, anonymized_text) is a  *)
(* record [tag, ch]: tag is the element's first character ("-" removed,    *)
(* "+" inserted, " " kept), ch the character it refers to.  Python's None  *)
(* for start_range is the integer None == -1 (offsets are >= 0).           *)
(* Python offsets are 0-based and half-open; x[k] of Python is x[k+1] here.*)
(***************************************************************************)
EXTENDS Integers, Sequences, FiniteSets

VARIABLES pc, self_pii_entities, metadata, value, entities_to_filter,
          anonymized_text, diffs, i, start_range, diff_ranges,
          curr_index_in_original, error_spans, result

vars == <<pc, self_pii_entities, metadata, value, entities_to_filter,
          anonymized_text, diffs, i, start_range, diff_ranges,
          curr_index_in_original, error_spans, result>>

\* ---------------------------------------------------------------- bounds
\* longest input text (value)
MaxLen == 4
\* longest text the anonymizer returns
MaxAnonLen == 3
\* longest edit script of ScanSpec
MaxScript == 5

\* characters of the input text, and the extra character a placeholder brings
Chars == {"a", "b"}
AnonChars == Chars \cup {"x"}

StringsUpTo(S, n) == UNION {[1..k -> S] : k \in 0..n}

SetMin(S) == CHOOSE x \in S : \A y \in S : x <= y
SetMax(S) == CHOOSE x \in S : \A y \in S : y <= x

None == -1

\* ------------------------------------------------- entity configuration
\* A Python value given as pii_entities: None, a str, a list, or something else.
PyNone == [type |-> "NoneType", str |-> "", list |-> <<>>]
PyStr(s) == [type |-> "str", str |-> s, list |-> <<>>]
PyList(l) == [type |-> "list", str |-> "", list |-> l]
PyOther == [type |-> "int", str |-> "", list |-> <<>>]

PII_ENTITIES_MAP ==
  [k \in {"pii", "spi"} |->
     IF k = "pii"
     THEN <<"EMAIL_ADDRESS", "PHONE_NUMBER", "DOMAIN_NAME", "IP_ADDRESS",
            "DATE_TIME", "LOCATION", "PERSON", "URL">>
     ELSE <<"CREDIT_CARD", "CRYPTO", "IBAN_CODE", "NRP", "MEDICAL_LICENSE",
            "US_BANK_NUMBER", "US_DRIVER_LICENSE", "US_ITIN", "US_PASSPORT",
            "US_SSN">>]

\* an explicit list a caller passes
ExplicitList == <<"PERSON", "PHONE_NUMBER">>

ConfigValues == {PyNone, PyStr("pii"), PyStr("spi"), PyStr("bogus"),
                 PyList(ExplicitList), PyOther}

NoMetadata == [k \in {} |-> PyNone]
Metadatas == {NoMetadata} \cup [{"pii_entities"} -> ConfigValues]

\* metadata.get("pii_entities", self.pii_entities)
MetadataGetMutant(md, dflt) ==
  IF dflt # PyNone THEN dflt
  ELSE IF "pii_entities" \in DOMAIN md THEN md["pii_entities"] ELSE dflt
MetadataGet(md, dflt) ==
  IF "pii_entities" \in DOMAIN md THEN md["pii_entities"] ELSE dflt

\* the three raise statements of validate
ConfigRaises(pii_entities) ==
  \/ pii_entities.type = "NoneType"
  \/ pii_entities.type = "str" /\ pii_entities.str \notin DOMAIN PII_ENTITIES_MAP
  \/ pii_entities.type \notin {"NoneType", "str", "list"}

\* entities_to_filter, when nothing is raised
ResolvedEntities(pii_entities) ==
  IF pii_entities.type = "str" THEN PII_ENTITIES_MAP[pii_entities.str]
  ELSE pii_entities.list

\* ------------------------------------------------- difflib.Differ.compare
\* length of the common run of a[i:ahi] and b[j:bhi] starting at i, j
RECURSIVE MatchLen(_, _, _, _, _, _)
MatchLen(a, b, ii, jj, ahi, bhi) ==
  IF ii < ahi /\ jj < bhi /\ a[ii + 1] = b[jj + 1]
  THEN 1 + MatchLen(a, b, ii + 1, jj + 1, ahi, bhi)
  ELSE 0

\* SequenceMatcher.find_longest_match without junk: the longest block, the
\* earliest in a among the longest, the earliest in b among those
find_longest_match(a, b, alo, ahi, blo, bhi) ==
  LET sizes == {MatchLen(a, b, ii, jj, ahi, bhi) :
                  ii \in alo..(ahi - 1), jj \in blo..(bhi - 1)}
      bestsize == SetMax(sizes \cup {0})
  IN IF bestsize = 0 THEN <<alo, blo, 0>>
     ELSE LET besti == SetMin({ii \in alo..(ahi - 1) :
                           \E jj \in blo..(bhi - 1) :
                              MatchLen(a, b, ii, jj, ahi, bhi) = bestsize})
              bestj == SetMin({jj \in blo..(bhi - 1) :
                              MatchLen(a, b, besti, jj, ahi, bhi) = bestsize})
          IN <<besti, bestj, bestsize>>

\* the blocks get_matching_blocks collects, sorted
RECURSIVE matching_blocks(_, _, _, _, _, _)
matching_blocks(a, b, alo, ahi, blo, bhi) ==
  LET x == find_longest_match(a, b, alo, ahi, blo, bhi)
      bi == x[1]
      bj == x[2]
      k == x[3]
  IN IF k = 0 THEN <<>>
     ELSE (IF alo < bi /\ blo < bj
           THEN matching_blocks(a, b, alo, bi, blo, bj) ELSE <<>>)
          \o <<x>> \o
          (IF bi + k < ahi /\ bj + k < bhi
           THEN matching_blocks(a, b, bi + k, ahi, bj + k, bhi) ELSE <<>>)

\* get_matching_blocks: adjacent blocks collapsed, then the sentinel
RECURSIVE collapse(_, _, _)
collapse(blocks, n, cur) ==
  IF n > Len(blocks)
  THEN (IF cur[3] > 0 THEN <<cur>> ELSE <<>>)
  ELSE LET nb == blocks[n]
       IN IF cur[1] + cur[3] = nb[1] /\ cur[2] + cur[3] = nb[2]
          THEN collapse(blocks, n + 1, <<cur[1], cur[2], cur[3] + nb[3]>>)
          ELSE (IF cur[3] > 0 THEN <<cur>> ELSE <<>>)
               \o collapse(blocks, n + 1, nb)

get_matching_blocks(a, b) ==
  collapse(matching_blocks(a, b, 0, Len(a), 0, Len(b)), 1, <<0, 0, 0>>)
  \o <<<<Len(a), Len(b), 0>>>>

\* Differ._dump
dump(tag, x, lo, hi) == [n \in 1..(hi - lo) |-> [tag |-> tag, ch |-> x[lo + n]]]

\* Differ._plain_replace: the shorter block first
plain_replace(a, alo, ahi, b, blo, bhi) ==
  IF bhi - blo < ahi - alo
  THEN dump("+", b, blo, bhi) \o dump("-", a, alo, ahi)
  ELSE dump("-", a, alo, ahi) \o dump("+", b, blo, bhi)

\* Differ._fancy_replace and Differ._fancy_helper.  The elements are single
\* characters, so two different elements have ratio 0 (below the cutoff) and
\* the only synch point is an identical pair, the first in b-major order.
RECURSIVE fancy_replace(_, _, _, _, _, _)
RECURSIVE fancy_helper(_, _, _, _, _, _)
fancy_replace(a, alo, ahi, b, blo, bhi) ==
  LET eqs == {p \in (alo..(ahi - 1)) \X (blo..(bhi - 1)) : a[p[1] + 1] = b[p[2] + 1]}
  IN IF eqs = {} THEN plain_replace(a, alo, ahi, b, blo, bhi)
     ELSE LET eqj == SetMin({p[2] : p \in eqs})
              eqi == SetMin({p[1] : p \in {q \in eqs : q[2] = eqj}})
          IN fancy_helper(a, alo, eqi, b, blo, eqj)
             \o dump(" ", a, eqi, eqi + 1)
             \o fancy_helper(a, eqi + 1, ahi, b, eqj + 1, bhi)

fancy_helper(a, alo, ahi, b, blo, bhi) ==
  IF alo < ahi
  THEN (IF blo < bhi THEN fancy_replace(a, alo, ahi, b, blo, bhi)
        ELSE dump("-", a, alo, ahi))
  ELSE IF blo < bhi THEN dump("+", b, blo, bhi) ELSE <<>>

\* get_opcodes and Differ.compare, from block n on, a consumed to ii, b to jj
RECURSIVE compare_from(_, _, _, _, _, _)
compare_from(a, b, blocks, n, ii, jj) ==
  IF n > Len(blocks) THEN <<>>
  ELSE LET ai == blocks[n][1]
           bj == blocks[n][2]
           size == blocks[n][3]
           gap == IF ii < ai /\ jj < bj THEN fancy_replace(a, ii, ai, b, jj, bj)
                  ELSE IF ii < ai THEN dump("-", a, ii, ai)
                  ELSE IF jj < bj THEN dump("+", b, jj, bj)
                  ELSE <<>>
           eq == IF size > 0 THEN dump(" ", a, ai, ai + size) ELSE <<>>
       IN gap \o eq \o compare_from(a, b, blocks, n + 1, ai + size, bj + size)

\* list(differ.compare(value, anonymized_text))
Differ_compare(a, b) == compare_from(a, b, get_matching_blocks(a, b), 1, 0, 0)

\* --------------------------------------------------- the scan of validate
\* one iteration of `for i in range(len(diffs))`, d == diffs[i]
\* lines 157-158: a non-removed element closes the open range
NextDiffRangesMutant(d, start, ranges, cur) ==
  IF start # None /\ d.tag # "-" THEN Append(ranges, <<start, cur + 1>>) ELSE ranges
NextDiffRanges(d, start, ranges, cur) ==
  IF start # None /\ d.tag # "-" THEN Append(ranges, <<start, cur>>) ELSE ranges

\* line 159: start_range = None after the append
StartAfterCloseMutant(d, start) == start
StartAfterClose(d, start) ==
  IF start # None /\ d.tag # "-" THEN None ELSE start

\* lines 160-162: a removed element opens a range when none is open
StartAfterOpen(d, start, cur) ==
  IF d.tag = "-" /\ start = None THEN cur ELSE start

\* lines 163-164: every element but an inserted one advances the offset
NextIndexMutant(d, cur) == cur + 1
NextIndexKeptOnly(d, cur) == IF d.tag = " " THEN cur + 1 ELSE cur
NextIndex(d, cur) == IF d.tag # "+" THEN cur + 1 ELSE cur

\* lines 166-174: one ErrorSpan per range, in order
\* x[lo:hi] of Python for lo, hi >= 0: the slice is clipped to the string
PySlice(x, lo, hi) ==
  LET top == IF hi < Len(x) THEN hi ELSE Len(x)
  IN IF lo < top THEN SubSeq(x, lo + 1, top) ELSE <<>>

ReasonMutant(v, anon, s, e) == <<"PII detected in ">> \o PySlice(anon, s, e)
Reason(v, anon, s, e) == <<"PII detected in ">> \o PySlice(v, s, e)

ErrorSpans(ranges, v, anon) ==
  [n \in 1..Len(ranges) |->
     [start |-> ranges[n][1], end |-> ranges[n][2],
      reason |-> Reason(v, anon, ranges[n][1], ranges[n][2])]]

NoResult == [kind |-> "none", error_message |-> <<>>, fix_value |-> <<>>,
             error_spans |-> <<>>]
PassResult == [kind |-> "PassResult", error_message |-> <<>>, fix_value |-> <<>>,
               error_spans |-> <<>>]
FailResult(msg, fix, spans) ==
  [kind |-> "FailResult", error_message |-> msg, fix_value |-> fix,
   error_spans |-> spans]

\* line 145: anonymized_text == value
TextsEqualMutant(anon, v) == FALSE
TextsEqual(anon, v) == anon = v

\* ------------------------------------------------------------ state machine
Init ==
  /\ pc = "idle"
  /\ self_pii_entities = PyNone
  /\ metadata = NoMetadata
  /\ value = <<>>
  /\ entities_to_filter = <<>>
  /\ anonymized_text = <<>>
  /\ diffs = <<>>
  /\ i = 0
  /\ start_range = None
  /\ diff_ranges = <<>>
  /\ curr_index_in_original = 0
  /\ error_spans = <<>>
  /\ result = NoResult

\* main.py, the detect_pii tool: DetectPII(pii_entities).validate(query, {...})
detect_pii ==
  /\ pc = "idle"
  /\ \E query \in StringsUpTo(Chars, MaxLen),
        arg \in {PyNone, PyList(ExplicitList)} :
       LET pii_entities == IF arg = PyNone THEN PyList(PII_ENTITIES_MAP["pii"])
                           ELSE arg
       IN /\ self_pii_entities' = pii_entities
          /\ metadata' = [k \in {"pii_entities"} |-> pii_entities]
          /\ value' = query
  /\ pc' = "validate"
  /\ UNCHANGED <<entities_to_filter, anonymized_text, diffs, i, start_range,
                 diff_ranges, curr_index_in_original, error_spans, result>>

\* DetectPII(pii_entities=c).validate(v, md) by a caller of the class
validate ==
  /\ pc = "idle"
  /\ \E c \in ConfigValues, md \in Metadatas, v \in StringsUpTo(Chars, MaxLen) :
       /\ self_pii_entities' = c
       /\ metadata' = md
       /\ value' = v
  /\ pc' = "validate"
  /\ UNCHANGED <<entities_to_filter, anonymized_text, diffs, i, start_range,
                 diff_ranges, curr_index_in_original, error_spans, result>>

\* validate, lines 118-139: the entity configuration
ResolveEntities ==
  /\ pc = "validate"
  /\ LET pii_entities == MetadataGet(metadata, self_pii_entities)
     IN IF ConfigRaises(pii_entities)
        THEN /\ pc' = "raised"
             /\ UNCHANGED entities_to_filter
        ELSE /\ pc' = "inference"
             /\ entities_to_filter' = ResolvedEntities(pii_entities)
  /\ UNCHANGED <<self_pii_entities, metadata, value, anonymized_text, diffs, i,
                 start_range, diff_ranges, curr_index_in_original, error_spans,
                 result>>

\* validate, lines 142-144, and _inference_local: the analyzer and anonymizer
\* are external; they return some text
inference_local ==
  /\ pc = "inference"
  /\ \E t \in StringsUpTo(AnonChars, MaxAnonLen) : anonymized_text' = t
  /\ pc' = "compare"
  /\ UNCHANGED <<self_pii_entities, metadata, value, entities_to_filter, diffs, i,
                 start_range, diff_ranges, curr_index_in_original, error_spans,
                 result>>

\* validate, lines 145-146
Compare ==
  /\ pc = "compare"
  /\ IF TextsEqual(anonymized_text, value)
     THEN /\ result' = PassResult
          /\ pc' = "done"
     ELSE /\ pc' = "diff"
          /\ UNCHANGED result
  /\ UNCHANGED <<self_pii_entities, metadata, value, entities_to_filter,
                 anonymized_text, diffs, i, start_range, diff_ranges,
                 curr_index_in_original, error_spans>>

\* validate, lines 150-155
Diff ==
  /\ pc = "diff"
  /\ diffs' = Differ_compare(value, anonymized_text)
  /\ start_range' = None
  /\ diff_ranges' = <<>>
  /\ curr_index_in_original' = 0
  /\ i' = 0
  /\ pc' = "scan"
  /\ UNCHANGED <<self_pii_entities, metadata, value, entities_to_filter,
                 anonymized_text, error_spans, result>>

\* validate, lines 156-164: one iteration of the loop
ScanStep ==
  /\ pc = "scan"
  /\ i < Len(diffs)
  /\ LET d == diffs[i + 1]
         closed == StartAfterClose(d, start_range)
     IN /\ diff_ranges' = NextDiffRanges(d, start_range, diff_ranges,
                                         curr_index_in_original)
        /\ start_range' = StartAfterOpen(d, closed, curr_index_in_original)
        /\ curr_index_in_original' = NextIndex(d, curr_index_in_original)
  /\ i' = i + 1
  /\ UNCHANGED <<pc, self_pii_entities, metadata, value, entities_to_filter,
                 anonymized_text, diffs, error_spans, result>>

\* validate, lines 166-174, once the loop is over
BuildErrorSpans ==
  /\ pc = "scan"
  /\ i = Len(diffs)
  /\ error_spans' = ErrorSpans(diff_ranges, value, anonymized_text)
  /\ pc' = "spans"
  /\ UNCHANGED <<self_pii_entities, metadata, value, entities_to_filter,
                 anonymized_text, diffs, i, start_range, diff_ranges,
                 curr_index_in_original, result>>

\* validate, lines 176-182, with fix_value taken from the input text
ReturnFailMutant ==
  /\ pc = "spans"
  /\ result' = FailResult(
       <<"The following text in your response contains PII:\n">> \o value,
       value, error_spans)
  /\ pc' = "done"
  /\ UNCHANGED <<self_pii_entities, metadata, value, entities_to_filter,
                 anonymized_text, diffs, i, start_range, diff_ranges,
                 curr_index_in_original, error_spans>>

\* validate, lines 176-182
ReturnFail ==
  /\ pc = "spans"
  /\ result' = FailResult(
       <<"The following text in your response contains PII:\n">> \o value,
       anonymized_text, error_spans)
  /\ pc' = "done"
  /\ UNCHANGED <<self_pii_entities, metadata, value, entities_to_filter,
                 anonymized_text, diffs, i, start_range, diff_ranges,
                 curr_index_in_original, error_spans>>

Next ==
  \/ detect_pii
  \/ validate
  \/ ResolveEntities
  \/ inference_local
  \/ Compare
  \/ Diff
  \/ ScanStep
  \/ BuildErrorSpans
  \/ ReturnFail

Spec == Init /\ [][Next]_vars

\* ------------------------------------- the scan alone, on any edit script
ScriptElems ==
  {[tag |-> t, ch |-> c] : t \in {"-", " "}, c \in Chars}
  \cup {[tag |-> "+", ch |-> c] : c \in AnonChars}

Scripts == StringsUpTo(ScriptElems, MaxScript)

\* the characters of the elements of s whose tag is not `drop`
RECURSIVE Side(_, _)
Side(s, drop) ==
  IF s = <<>> THEN <<>>
  ELSE (IF Head(s).tag = drop THEN <<>> ELSE <<Head(s).ch>>) \o Side(Tail(s), drop)

InitScan ==
  /\ pc = "scan"
  /\ self_pii_entities = PyStr("pii")
  /\ metadata = NoMetadata
  /\ entities_to_filter = PII_ENTITIES_MAP["pii"]
  /\ diffs \in Scripts
  /\ value = Side(diffs, "+")
  /\ anonymized_text = Side(diffs, "-")
  /\ i = 0
  /\ start_range = None
  /\ diff_ranges = <<>>
  /\ curr_index_in_original = 0
  /\ error_spans = <<>>
  /\ result = NoResult

ScanNext ==
  \/ ScanStep
  \/ BuildErrorSpans
  \/ ReturnFail

ScanSpec == InitScan /\ [][ScanNext]_vars

\* ------------------------------------------------------------ properties
\* the number of elements of s[1..n] that exist in the original
RECURSIVE Offset(_, _)
Offset(s, n) ==
  IF n = 0 THEN 0
  ELSE Offset(s, n - 1) + (IF s[n].tag # "+" THEN 1 ELSE 0)

IsProperPrefix(m, o) == Len(m) < Len(o) /\ SubSeq(o, 1, Len(m)) = m

Failed == pc = "done" /\ result.kind = "FailResult"
ScanOver == pc = "spans" \/ Failed
Scanning == pc = "scan" \/ ScanOver

\* C1: when the anonymized text is a proper prefix of the input text, the
\* result holds exactly one Finding, and its range is
\* (len(anonymized_text), len(value)).
C1_TrailingRemoval ==
  (Failed /\ IsProperPrefix(anonymized_text, value))
    => /\ Len(result.error_spans) = 1
       /\ result.error_spans[1].start = Len(anonymized_text)
       /\ result.error_spans[1].end = Len(value)

\* C2: when the anonymized text equals the input text, validate returns a
\* pass outcome with no Finding and the diff and scan are never run; and as
\* long as the scan has consumed kept elements only, it has opened no range.
C2_Identity ==
  /\ (pc \in {"diff", "scan", "spans", "done"} /\ anonymized_text = value)
       => /\ pc = "done"
          /\ result = PassResult
          /\ diffs = <<>> /\ i = 0
          /\ diff_ranges = <<>> /\ error_spans = <<>>
  /\ (Scanning /\ \A n \in 1..i : diffs[n].tag = " ")
       => (start_range = None /\ diff_ranges = <<>>)

C2_Witness ==
  /\ pc = "done" /\ result = PassResult
  /\ anonymized_text = value /\ Len(value) = 2

\* C3: the ranges are in ascending order and do not overlap: each ends at or
\* before the start of the next and starts strictly before it; and the scan
\* only ever appends to the sequence.
C3_Ordered ==
  \A n \in 1..(Len(diff_ranges) - 1) :
     /\ diff_ranges[n][2] <= diff_ranges[n + 1][1]
     /\ diff_ranges[n][1] < diff_ranges[n + 1][1]

C3_AppendOnly ==
  /\ Len(diff_ranges') >= Len(diff_ranges)
  /\ SubSeq(diff_ranges', 1, Len(diff_ranges)) = diff_ranges

C3_NonOverlapOrder == [](C3_Ordered) /\ [][C3_AppendOnly]_vars

C3_Witness == ScanOver /\ Len(diff_ranges) = 2

\* C4: every range in the result satisfies 0 <= start < end <= len(value),
\* at every point of the scan.
C4_RangeBounds ==
  \A n \in 1..Len(diff_ranges) :
     /\ 0 <= diff_ranges[n][1]
     /\ diff_ranges[n][1] < diff_ranges[n][2]
     /\ diff_ranges[n][2] <= Len(value)

C4_Witness ==
  /\ ScanOver /\ Len(diff_ranges) = 1
  /\ diff_ranges[1] = <<0, Len(value)>>
  /\ \E n \in 1..Len(diffs) : diffs[n].tag = "+"

\* the maximal runs of removed elements of script s, as pairs of positions
RemovedRuns(s) ==
  {r \in (1..Len(s)) \X (1..Len(s)) :
     /\ r[1] <= r[2]
     /\ \A n \in r[1]..r[2] : s[n].tag = "-"
     /\ (r[1] = 1 \/ s[r[1] - 1].tag # "-")
     /\ (r[2] = Len(s) \/ s[r[2] + 1].tag # "-")}

\* the offsets in the original of the run r of script s
RunRange(s, r) == <<Offset(s, r[1] - 1), Offset(s, r[2])>>

KeptBetween(s, r1, r2) == \E n \in (r1[2] + 1)..(r2[1] - 1) : s[n].tag = " "

Reported(spans, rng) ==
  Cardinality({n \in 1..Len(spans) :
                 spans[n].start = rng[1] /\ spans[n].end = rng[2]}) = 1

\* C5: two runs of removed elements separated by at least one kept element
\* are reported as two Findings, each covering exactly its own run; and when
\* every run is followed by a kept element there are as many Findings as runs.
C5_DisjointRemovals ==
  Failed =>
    LET runs == RemovedRuns(diffs)
    IN /\ \A r1, r2 \in runs :
            KeptBetween(diffs, r1, r2)
              => /\ Reported(result.error_spans, RunRange(diffs, r1))
                 /\ Reported(result.error_spans, RunRange(diffs, r2))
       /\ (\A r \in runs : r[2] < Len(diffs) /\ diffs[r[2] + 1].tag = " ")
            => Len(result.error_spans) = Cardinality(runs)

\* the tags of a script
TagsOf(s) == [n \in 1..Len(s) |-> s[n].tag]
Rep(t, n) == [k \in 1..n |-> t]

\* the number of kept elements at the start, and at the end, of a script
RECURSIVE LeadingKept(_, _)
LeadingKept(s, n) ==
  IF n <= Len(s) /\ s[n].tag = " " THEN 1 + LeadingKept(s, n + 1) ELSE 0
RECURSIVE TrailingKept(_, _)
TrailingKept(s, n) ==
  IF n >= 1 /\ s[n].tag = " " THEN 1 + TrailingKept(s, n - 1) ELSE 0

\* the script is p kept elements, then one block of s removed and one block
\* of h inserted elements in either order, then q kept elements
IsReplacement(scr, p, s, h, q) ==
  \/ TagsOf(scr) = Rep(" ", p) \o Rep("-", s) \o Rep("+", h) \o Rep(" ", q)
  \/ TagsOf(scr) = Rep(" ", p) \o Rep("+", h) \o Rep("-", s) \o Rep(" ", q)

C7_Reason ==
  ScanOver =>
    /\ Len(error_spans) = Len(diff_ranges)
    /\ \A n \in 1..Len(diff_ranges) :
          /\ error_spans[n].start = diff_ranges[n][1]
          /\ error_spans[n].end = diff_ranges[n][2]
          /\ error_spans[n].reason
               = <<"PII detected in ">>
                 \o [k \in 1..(diff_ranges[n][2] - diff_ranges[n][1])
                       |-> value[diff_ranges[n][1] + k]]
    /\ (pc = "done" => result.error_spans = error_spans)

C7_Witness ==
  /\ Failed
  /\ value = <<"a", "b", "a", "b">> /\ anonymized_text = <<"b", "b">>
  /\ Len(result.error_spans) = 2
  /\ result.error_spans[2]
       = [start |-> 2, end |-> 3, reason |-> <<"PII detected in ", "a">>]

\* the configuration in force: the metadata's value when the key is there,
\* the constructor's otherwise
Effective ==
  IF "pii_entities" \in DOMAIN metadata THEN metadata["pii_entities"]
  ELSE self_pii_entities

Analyzed == pc \in {"compare", "diff", "scan", "spans", "done"}

\* C8: the analyzer runs only with the entity list the configuration in force
\* resolves to (the metadata's value before the constructor's; a preset's
\* list for 'pii' and 'spi'; an explicit list unchanged); None, an unknown
\* preset name and a value of another type raise, and then nothing is
\* analyzed and no result is returned.
C8_EntityConfig ==
  /\ pc \in ({"inference"} \cup {"compare", "diff", "scan", "spans", "done"})
       => \/ /\ Effective.type = "str" /\ Effective.str = "pii"
             /\ entities_to_filter = PII_ENTITIES_MAP["pii"]
          \/ /\ Effective.type = "str" /\ Effective.str = "spi"
             /\ entities_to_filter = PII_ENTITIES_MAP["spi"]
          \/ /\ Effective.type = "list"
             /\ entities_to_filter = Effective.list
  /\ pc = "raised"
       => /\ \/ Effective.type = "NoneType"
             \/ Effective.type = "str" /\ Effective.str \notin {"pii", "spi"}
             \/ Effective.type \notin {"str", "list"}
          /\ result = NoResult
          /\ anonymized_text = <<>> /\ diffs = <<>> /\ error_spans = <<>>
  /\ (~Analyzed) => (anonymized_text = <<>> /\ result = NoResult)

C8_Witness ==
  /\ pc = "done"
  /\ "pii_entities" \in DOMAIN metadata
  /\ metadata["pii_entities"] = PyStr("spi")
  /\ self_pii_entities = PyStr("pii")
  /\ entities_to_filter = PII_ENTITIES_MAP["spi"]

\* the element of the script that sits at offset k of the original
ElementAt(s, k) ==
  CHOOSE n \in 1..Len(s) : s[n].tag # "+" /\ Offset(s, n) = k + 1

InSomeRange(ranges, k) ==
  \E n \in 1..Len(ranges) : ranges[n][1] <= k /\ k < ranges[n][2]

\* C9: once the scan is over, an offset of the original lies in a returned
\* range if and only if its element is removed, and every returned range is
\* a maximal run of removed elements of the script (the run at the end of
\* the script included).
C9_MaximalRuns ==
  ScanOver =>
    /\ \A k \in 0..(Len(value) - 1) :
          InSomeRange(diff_ranges, k) <=> (diffs[ElementAt(diffs, k)].tag = "-")
    /\ \A n \in 1..Len(diff_ranges) :
          \E r \in RemovedRuns(diffs) : RunRange(diffs, r) = diff_ranges[n]

\* C10: during the scan the offset is the number of kept and removed
\* elements consumed so far; it never exceeds len(value) and equals it when
\* the scan is over.
C10_OffsetIsCount ==
  Scanning =>
    /\ curr_index_in_original = Offset(diffs, i)
    /\ curr_index_in_original <= Len(value)
    /\ (i = Len(diffs) => curr_index_in_original = Len(value))

\* C10: a step of the scan opens a range at, and closes a range at, the
\* offset as it was before the step advanced it.
C10_BeforeAdvancing ==
  /\ (start_range = None /\ start_range' # None)
       => start_range' = curr_index_in_original
  /\ Len(diff_ranges') > Len(diff_ranges)
       => diff_ranges'[Len(diff_ranges')] = <<start_range, curr_index_in_original>>

C10_OffsetCounter == [](C10_OffsetIsCount) /\ [][C10_BeforeAdvancing]_vars

C10_Witness ==
  /\ ScanOver
  /\ Len(diff_ranges) = 2
  /\ \E n \in 1..Len(diffs) :
        diffs[n].tag = "+" /\ \E m \in 1..(n - 1) : diffs[m].tag = "-"
  /\ curr_index_in_original = Len(value)

\* C11: a call whose entity configuration is valid returns a pass outcome if
\* and only if the anonymized text equals the input text; otherwise it
\* returns a fail outcome whose fix_value is the anonymized text (so it
\* differs from the input) and whose error_spans are the Findings built from
\* the ranges of the scan.
C11_Outcome ==
  pc = "done" =>
    /\ result.kind \in {"PassResult", "FailResult"}
    /\ (result.kind = "PassResult") <=> (anonymized_text = value)
    /\ result.kind = "FailResult"
         => /\ result.fix_value = anonymized_text
            /\ result.fix_value # value
            /\ result.error_spans = error_spans
            /\ Len(result.error_spans) = Len(diff_ranges)
            /\ \A n \in 1..Len(diff_ranges) :
                  /\ result.error_spans[n].start = diff_ranges[n][1]
                  /\ result.error_spans[n].end = diff_ranges[n][2]

\* C11: once the call is made, no step changes the input text.
C11_ValueKept == (pc # "idle") => (value' = value)

C11_PassFail == [](C11_Outcome) /\ [][C11_ValueKept]_vars

C11_Witness ==
  /\ Failed
  /\ value = <<"a", "b">> /\ anonymized_text = <<"x", "b">>
  /\ result.fix_value = <<"x", "b">>
  /\ Len(result.error_spans) = 1

\* C12: when the edit script has no removed element the call fails with an
\* empty error_spans list although the texts differ; when it has at least
\* one removed element, error_spans is not empty.
C12_InsertionOnly ==
  Failed =>
    LET removed == {n \in 1..Len(diffs) : diffs[n].tag = "-"}
    IN /\ removed = {} => (result.error_spans = <<>> /\ anonymized_text # value)
       /\ removed # {} => result.error_spans # <<>>

====
